---- MODULE Spec2Model ----
(***************************************************************************)
(* A model of xfind.js (shadow-dom-selector): the selector text functions, *)
(* the tree collector, the ancestor-chain matcher and the query            *)
(* orchestrator, over small document trees with open shadow roots.         *)
(*                                                                         *)
(* Strings are sequences of one-character strings.  Nodes are integers:    *)
(* element ids are 1..n, the shadow root owned by element h is -h, the     *)
(* document is Document and the JavaScript null is Null.                   *)
(***************************************************************************)
EXTENDS Integers, Sequences, FiniteSets, TLC

VARIABLES
    strIn,          \* text machine: the string handed to the text functions
    strCh,          \* text machine: the delimiter character
    tokOut,         \* text machine: what splitByUnquotedCharacter produced
    segOut,         \* text machine: what the normalizer + segmenter produced
    parentNode,     \* the tree: each element's parentNode
    tagName,        \* the tree: each element's tag
    shadowSupport,  \* document.head.createShadowRoot || document.head.attachShadow
    markerSupport,  \* whether the host's selector parser takes '>>>'
    inSelector,     \* the selector handed to xfind / xfindAll and to the collector
    inRoot,         \* the root handed to xfind / xfindAll and to the collector
    gathered,       \* collector machine: what gatherAllElementsXFind returned
    pc,             \* query machine: "idle", or "loop" inside performQuery
    findMany,       \* performQuery's findMany
    selectors,      \* performQuery's selectors (the stages)
    i,              \* performQuery's loop index, counted from 1
    currentElement, \* performQuery's currentElement
    evaluated,      \* the stages the latest call handed to queryInShadowDOM, with their roots
    found,          \* what xfind returned
    foundAll        \* what xfindAll returned

textVars == <<strIn, strCh, tokOut, segOut>>

treeVars == <<parentNode, tagName, shadowSupport, markerSupport, inSelector, inRoot>>

queryVars == <<pc, findMany, selectors, i, currentElement, evaluated, found, foundAll>>

vars == <<strIn, strCh, tokOut, segOut, parentNode, tagName, shadowSupport, markerSupport,
          inSelector, inRoot,
          gathered, pc, findMany, selectors, i, currentElement, evaluated, found, foundAll>>

(***************************************************************************)
(* Bounds of the model.                                                    *)
(***************************************************************************)
MaxLen == 4         \* longest enumerated input string of the text machine
MaxElems == 3       \* most elements in a tree

(***************************************************************************)
(* Characters.                                                             *)
(***************************************************************************)
DQ == "\""
SQ == "'"
BS == "\\"
NL == "\n"
SP == " "
GT == ">"
COMMA == ","

\* . in a JavaScript regular expression matches anything but a line terminator
IsLineTerminator(c) == c = NL

\* \s in a JavaScript regular expression; String.prototype.trim strips the same
IsWhitespace(c) == c \in {SP, NL}

\* the character class [>+~]
IsCombinator(c) == c \in {GT, "+", "~"}

(***************************************************************************)
(* splitByUnquotedCharacter, xfind.js 152-167.                             *)
(***************************************************************************)
\* selector.match(/\\?.|^$/g) from index p on: a backslash followed by a
\* character that . matches is one two-character token, any other character
\* that . matches is a token of its own, a line terminator matches nothing
\* and is skipped by the global search.
RECURSIVE MatchFrom(_, _)
MatchFrom(s, p) ==
    IF p > Len(s) THEN <<>>
    ELSE IF s[p] = BS /\ p < Len(s) /\ ~IsLineTerminator(s[p + 1])
         THEN <<SubSeq(s, p, p + 1)>> \o MatchFrom(s, p + 2)
    ELSE IF ~IsLineTerminator(s[p])
         THEN << <<s[p]>> >> \o MatchFrom(s, p + 1)
    ELSE MatchFrom(s, p + 1)

\* The whole match: ^$ matches the empty string only, giving one empty token;
\* no match at all gives null.
RegexMatchAll(s) ==
    IF s = <<>> THEN [isNull |-> FALSE, tokens |-> << <<>> >>]
    ELSE LET m == MatchFrom(s, 1)
         IN  [isNull |-> m = <<>>, tokens |-> m]

\* strings[strings.length - 1] += char
AppendToLast(strings, tok) ==
    [strings EXCEPT ![Len(strings)] = @ \o tok]

\* One call of the reduce callback, lines 154-165.
SplitStep(acc, char, character) ==
    IF char = <<DQ>> /\ acc.singleQuote = 0
    THEN [acc EXCEPT !.doubleQuote = 1 - @, !.strings = AppendToLast(@, char)]
    ELSE IF char = <<SQ>> /\ acc.doubleQuote = 0
    THEN [acc EXCEPT !.singleQuote = 1 - @, !.strings = AppendToLast(@, char)]
    ELSE IF acc.doubleQuote = 0 /\ acc.singleQuote = 0 /\ char = <<character>>
    THEN [acc EXCEPT !.strings = Append(@, <<>>)]
    ELSE [acc EXCEPT !.strings = AppendToLast(@, char)]

RECURSIVE SplitReduce(_, _, _, _)
SplitReduce(tokens, k, acc, character) ==
    IF k > Len(tokens) THEN acc
    ELSE SplitReduce(tokens, k + 1, SplitStep(acc, tokens[k], character), character)

\* The call: threw is the TypeError of null.reduce.
splitByUnquotedCharacter(selector, character) ==
    LET m == RegexMatchAll(selector)
    IN  IF m.isNull
        THEN [threw |-> TRUE, strings |-> <<>>]
        ELSE [threw |-> FALSE,
              strings |-> SplitReduce(m.tokens, 1,
                              [strings |-> << <<>> >>, doubleQuote |-> 0, singleQuote |-> 0],
                              character).strings]

(***************************************************************************)
(* The normalizer and segmenter, xfind.js 105.                             *)
(***************************************************************************)
RECURSIVE TrimLeft(_)
TrimLeft(s) ==
    IF s # <<>> /\ IsWhitespace(s[1]) THEN TrimLeft(Tail(s)) ELSE s

RECURSIVE TrimRight(_)
TrimRight(s) ==
    IF s # <<>> /\ IsWhitespace(s[Len(s)]) THEN TrimRight(SubSeq(s, 1, Len(s) - 1)) ELSE s

\* String.prototype.trim
Trim(s) == TrimRight(TrimLeft(s))

\* the first index at or after p that holds no whitespace (Len(s) + 1 if none)
RECURSIVE SkipWhitespace(_, _)
SkipWhitespace(s, p) ==
    IF p <= Len(s) /\ IsWhitespace(s[p]) THEN SkipWhitespace(s, p + 1) ELSE p

\* .replace(/\s*([>+~])\s*/g, '$1') from index p on: a whitespace run that
\* ends at a combinator, the combinator, and the whitespace run after it are
\* replaced by the combinator; everything else is copied.
RECURSIVE NormalizeFrom(_, _)
NormalizeFrom(s, p) ==
    IF p > Len(s) THEN <<>>
    ELSE LET j == SkipWhitespace(s, p)
         IN  IF j <= Len(s) /\ IsCombinator(s[j])
             THEN <<s[j]>> \o NormalizeFrom(s, SkipWhitespace(s, j + 1))
             ELSE <<s[p]>> \o NormalizeFrom(s, p + 1)

NormalizeCombinators(s) == NormalizeFrom(s, 1)

\* .filter(Boolean) on an array of strings drops the empty ones
FilterNonEmpty(strings) == SelectSeq(strings, LAMBDA x : x # <<>>)

\* refinedSelectors of line 105
Segment(sel) ==
    LET r == splitByUnquotedCharacter(NormalizeCombinators(Trim(sel)), SP)
    IN  [threw |-> r.threw, strings |-> FilterNonEmpty(r.strings)]


(***************************************************************************)
(* The host: the tree, and the native selector engine the code calls       *)
(* (querySelector, querySelectorAll, matches).                             *)
(***************************************************************************)
Document == 0

\* null: a node id that no element and no shadow root has
Null == 0 - (MaxElems + 1)

Tags == {"a", "b"}

Elements == DOMAIN tagName

IsElement(x) == x \in Elements

ShadowRootOf(h) == 0 - h

\* a shadow root is represented when it holds an element
Hosts == {h \in Elements : \E e \in Elements : parentNode[e] = ShadowRootOf(h)}

\* parent.host && parent.nodeType === 11
IsShadowRoot(x) == x < 0 /\ x # Null

\* sr.host
host(sr) == 0 - sr

\* node.shadowRoot: the open shadow root of an element; the document and a
\* shadow root have none
shadowRoot(node) == IF node \in Hosts THEN ShadowRootOf(node) ELSE Null

Children(x) == {e \in Elements : parentNode[e] = x}

Min(S) == CHOOSE x \in S : \A y \in S : x <= y

\* the elements of the sibling set S and everything below them inside the
\* same tree, in tree order (siblings stand in id order)
RECURSIVE TreeOrder(_)
TreeOrder(S) ==
    IF S = {} THEN <<>>
    ELSE LET k == Min(S)
         IN  <<k>> \o TreeOrder(Children(k)) \o TreeOrder(S \ {k})

\* rt.querySelectorAll('*')
querySelectorAllStar(rt) == TreeOrder(Children(rt))

\* the ancestors of e inside its own tree
RECURSIVE LightAncestors(_)
LightAncestors(e) ==
    IF IsElement(parentNode[e])
    THEN {parentNode[e]} \cup LightAncestors(parentNode[e])
    ELSE {}

\* The native parser, for the grammar of type selectors and * joined by
\* descendant and child combinators.
ParseStart == [ok |-> TRUE, steps |-> <<>>, pending |-> "first"]

ParseChar(st, c) ==
    IF ~st.ok THEN st
    ELSE IF c \in Tags \cup {"*"}
    THEN IF st.pending = "none"
         THEN [st EXCEPT !.ok = FALSE]
         ELSE [st EXCEPT !.steps = Append(@, [comb |-> st.pending, tag |-> c]),
                         !.pending = "none"]
    ELSE IF IsWhitespace(c)
    THEN IF st.pending = "none" THEN [st EXCEPT !.pending = "desc"] ELSE st
    ELSE IF c = GT
    THEN IF st.pending \in {"none", "desc"}
         THEN [st EXCEPT !.pending = "child"]
         ELSE [st EXCEPT !.ok = FALSE]
    ELSE [st EXCEPT !.ok = FALSE]

RECURSIVE ParseFrom(_, _, _)
ParseFrom(s, k, st) ==
    IF k > Len(s) THEN st ELSE ParseFrom(s, k + 1, ParseChar(st, s[k]))

\* one complex selector: its compound selectors left to right, each with
\* the combinator that stands before it
ParseComplex(s) ==
    LET st == ParseFrom(s, 1, ParseStart)
    IN  [ok |-> st.ok /\ st.steps # <<>> /\ st.pending \in {"none", "desc"},
         steps |-> st.steps]

RECURSIVE NativeSplit(_, _, _)
NativeSplit(s, k, cur) ==
    IF k > Len(s) THEN <<cur>>
    ELSE IF s[k] = COMMA THEN <<cur>> \o NativeSplit(s, k + 1, <<>>)
    ELSE NativeSplit(s, k + 1, Append(cur, s[k]))

\* a selector list
ParseList(s) ==
    LET parts == NativeSplit(s, 1, <<>>)
        parsed == [k \in 1..Len(parts) |-> ParseComplex(parts[k])]
    IN  [ok |-> \A k \in 1..Len(parts) : parsed[k].ok,
         list |-> [k \in 1..Len(parts) |-> parsed[k].steps]]

\* whether the native parser takes the string
HostAccepts(s) == ParseList(s).ok

\* e matches steps[1..k]: e matches the compound steps[k], and what stands
\* left of it is matched by e's parent element (child combinator) or by one
\* of e's ancestors (descendant combinator) inside e's own tree
RECURSIVE StepsMatch(_, _, _)
StepsMatch(e, steps, k) ==
    /\ steps[k].tag \in {"*", tagName[e]}
    /\ \/ k = 1
       \/ /\ k > 1
          /\ steps[k].comb = "child"
          /\ IsElement(parentNode[e])
          /\ StepsMatch(parentNode[e], steps, k - 1)
       \/ /\ k > 1
          /\ steps[k].comb = "desc"
          /\ \E anc \in LightAncestors(e) : StepsMatch(anc, steps, k - 1)

\* e.matches(s)
matches(e, s) ==
    LET p == ParseList(s)
    IN  p.ok /\ \E k \in 1..Len(p.list) : StepsMatch(e, p.list[k], Len(p.list[k]))

\* rt.querySelectorAll(s): the elements below rt, in tree order, that match s
querySelectorAll(rt, s) == SelectSeq(querySelectorAllStar(rt), LAMBDA e : matches(e, s))

\* rt.querySelector(s)
querySelector(rt, s) ==
    LET all == querySelectorAll(rt, s)
    IN  IF all = <<>> THEN Null ELSE all[1]

(***************************************************************************)
(* gatherAllElementsXFind, xfind.js 186-204.                               *)
(***************************************************************************)
\* collectElements: each node, followed by what its shadow root holds
RECURSIVE collectElements(_)
collectElements(nodes) ==
    IF nodes = <<>> THEN <<>>
    ELSE LET node == Head(nodes)
         IN  <<node>>
             \o (IF shadowRoot(node) # Null
                 THEN collectElements(querySelectorAllStar(shadowRoot(node)))
                 ELSE <<>>)
             \o collectElements(Tail(nodes))

\* Mutant of gatherAllElementsXFind: the root's own tree is collected before
\* its shadow tree.
gatherLightTreeFirst(sel, rt) ==
    LET elements ==
            collectElements(querySelectorAllStar(rt))
            \o (IF shadowRoot(rt) # Null
                THEN collectElements(querySelectorAllStar(shadowRoot(rt)))
                ELSE <<>>)
    IN  IF sel # <<>>
        THEN SelectSeq(elements, LAMBDA el : matches(el, sel))
        ELSE elements

\* a null and an empty filter are both falsy on line 203
gatherAllElementsXFind(sel, rt) ==
    LET elements ==
            (IF shadowRoot(rt) # Null
             THEN collectElements(querySelectorAllStar(shadowRoot(rt)))
             ELSE <<>>)
            \o collectElements(querySelectorAllStar(rt))
    IN  IF sel # <<>>
        THEN SelectSeq(elements, LAMBDA el : matches(el, sel))
        ELSE elements

(***************************************************************************)
(* getParentOrHost, xfind.js 175-178.                                      *)
(***************************************************************************)
\* element.parentNode; the document has none
ParentNodeOf(element) == IF element = Document THEN Null ELSE parentNode[element]

getParentOrHost(element, rt) ==
    LET parent == ParentNodeOf(element)
    IN  IF parent # Null /\ IsShadowRoot(parent)
        THEN host(parent)
        ELSE IF parent = rt THEN Null ELSE parent

(***************************************************************************)
(* matchElements, xfind.js 128-144.  Positions count from 1, so the        *)
(* source's position 0 is position 1.                                      *)
(***************************************************************************)
\* the while loop from (currentElement, position) on; tested collects the
\* elements whose matches() was called
RECURSIVE MatchWalk(_, _, _, _, _)
MatchWalk(cur, position, refinedSelectors, rt, tested) ==
    IF cur = Null THEN [accepted |-> FALSE, tested |-> tested]
    ELSE LET isMatch == /\ IsElement(cur)
                        /\ position >= 1
                        /\ matches(cur, refinedSelectors[position])
             seen == IF IsElement(cur) THEN tested \cup {cur} ELSE tested
         IN  IF isMatch /\ position = 1
             THEN [accepted |-> TRUE, tested |-> seen]
             ELSE MatchWalk(getParentOrHost(cur, rt),
                            IF isMatch THEN position - 1 ELSE position,
                            refinedSelectors, rt, seen)

\* the predicate matchElements(refinedSelectors, lastIndex, rt), applied to element
matchElements(refinedSelectors, lastIndex, rt, element) ==
    MatchWalk(element, lastIndex, refinedSelectors, rt, {}).accepted

(***************************************************************************)
(* queryInShadowDOM, xfind.js 93-119.  The selectors of the query machine  *)
(* hold no line terminator, so splitByUnquotedCharacter does not throw.    *)
(***************************************************************************)
\* Mutant of AlternativeStep: in single mode the last accepted candidate is
\* returned, not the first.
AlternativeStepLastHit(accumulator, sel, many, rt) ==
    IF ~many /\ accumulator # Null THEN accumulator
    ELSE LET refinedSelectors == Segment(sel).strings
             lastIndex == Len(refinedSelectors)
             elementsToMatch ==
                 gatherAllElementsXFind(
                     IF lastIndex >= 1 THEN refinedSelectors[lastIndex] ELSE <<>>, rt)
             hits == SelectSeq(elementsToMatch,
                         LAMBDA el : matchElements(refinedSelectors, lastIndex, rt, el))
         IN  IF many THEN accumulator \o hits
             ELSE IF hits = <<>> THEN Null ELSE hits[Len(hits)]

\* the reduce callback, lines 102-115
AlternativeStep(accumulator, sel, many, rt) ==
    IF ~many /\ accumulator # Null THEN accumulator
    ELSE LET refinedSelectors == Segment(sel).strings
             lastIndex == Len(refinedSelectors)
             elementsToMatch ==
                 gatherAllElementsXFind(
                     IF lastIndex >= 1 THEN refinedSelectors[lastIndex] ELSE <<>>, rt)
             hits == SelectSeq(elementsToMatch,
                         LAMBDA el : matchElements(refinedSelectors, lastIndex, rt, el))
         IN  IF many THEN accumulator \o hits
             ELSE IF hits = <<>> THEN Null ELSE hits[1]

RECURSIVE AlternativesReduce(_, _, _, _, _)
AlternativesReduce(splitSelectors, k, accumulator, many, rt) ==
    IF k > Len(splitSelectors) THEN accumulator
    ELSE AlternativesReduce(splitSelectors, k + 1,
             AlternativeStep(accumulator, splitSelectors[k], many, rt), many, rt)

\* Mutant of queryInShadowDOM: the early return of lines 97-99 is left out.
queryInShadowDOMNoFastPath(sel, many, rt) ==
    LET lightDomElement == querySelector(rt, sel)
    IN  IF shadowSupport
        THEN AlternativesReduce(splitByUnquotedCharacter(sel, COMMA).strings, 1,
                 IF many THEN <<>> ELSE Null, many, rt)
        ELSE IF many THEN querySelectorAll(rt, sel) ELSE lightDomElement

queryInShadowDOM(sel, many, rt) ==
    LET lightDomElement == querySelector(rt, sel)
    IN  IF shadowSupport
        THEN IF ~many /\ lightDomElement # Null
             THEN lightDomElement
             ELSE AlternativesReduce(splitByUnquotedCharacter(sel, COMMA).strings, 1,
                      IF many THEN <<>> ELSE Null, many, rt)
        ELSE IF many THEN querySelectorAll(rt, sel) ELSE lightDomElement

(***************************************************************************)
(* performQuery, xfind.js 48-64, with xfind and xfindAll, 19-39.           *)
(***************************************************************************)
Marker == <<GT, GT, GT>>

\* selector.split('>>>')
RECURSIVE SplitMarkerFrom(_, _, _)
SplitMarkerFrom(s, k, cur) ==
    IF k > Len(s) THEN <<cur>>
    ELSE IF k + 2 <= Len(s) /\ SubSeq(s, k, k + 2) = Marker
    THEN <<cur>> \o SplitMarkerFrom(s, k + 3, <<>>)
    ELSE SplitMarkerFrom(s, k + 1, Append(cur, s[k]))

SplitMarker(s) == SplitMarkerFrom(s, 1, <<>>)

\* validateSelector hands the whole selector to the host's parser and says
\* whether it passes.  A selector without the marker passes when the parser
\* takes it; one with the marker passes on a host whose parser takes '>>>',
\* when every stage is a selector the parser takes.
validateSelector(sel) ==
    LET stages == SplitMarker(sel)
    IN  IF Len(stages) = 1 THEN HostAccepts(sel)
        ELSE markerSupport /\ \A k \in 1..Len(stages) : HostAccepts(stages[k])

Unset == [status |-> "unset", value |-> Null]
UnsetAll == [status |-> "unset", value |-> <<>>]
Returned(v) == [status |-> "returned", value |-> v]
Threw == [status |-> "threw", value |-> Null]
ThrewAll == [status |-> "threw", value |-> <<>>]

\* xfind(inSelector, inRoot) up to the loop of performQuery
XfindCall ==
    /\ pc = "idle"
    /\ found.status = "unset"
    /\ validateSelector(inSelector)
    /\ pc' = "loop"
    /\ findMany' = FALSE
    /\ selectors' = SplitMarker(inSelector)
    /\ i' = 1
    /\ currentElement' = inRoot
    /\ evaluated' = <<>>
    /\ UNCHANGED <<found, foundAll, gathered, textVars, treeVars>>

\* xfindAll(inSelector, inRoot) up to the loop of performQuery
XfindAllCall ==
    /\ pc = "idle"
    /\ foundAll.status = "unset"
    /\ validateSelector(inSelector)
    /\ pc' = "loop"
    /\ findMany' = TRUE
    /\ selectors' = SplitMarker(inSelector)
    /\ i' = 1
    /\ currentElement' = inRoot
    /\ evaluated' = <<>>
    /\ UNCHANGED <<found, foundAll, gathered, textVars, treeVars>>

\* validateSelector throws Invalid selector out of xfind
XfindInvalid ==
    /\ pc = "idle"
    /\ found.status = "unset"
    /\ ~validateSelector(inSelector)
    /\ found' = Threw
    /\ evaluated' = <<>>
    /\ UNCHANGED <<pc, findMany, selectors, i, currentElement, foundAll, gathered,
                   textVars, treeVars>>

\* validateSelector throws Invalid selector out of xfindAll
XfindAllInvalid ==
    /\ pc = "idle"
    /\ foundAll.status = "unset"
    /\ ~validateSelector(inSelector)
    /\ foundAll' = ThrewAll
    /\ evaluated' = <<>>
    /\ UNCHANGED <<pc, findMany, selectors, i, currentElement, found, gathered,
                   textVars, treeVars>>

\* one pass of the loop that takes line 55: the last stage of xfindAll
StageAll ==
    /\ pc = "loop"
    /\ i = Len(selectors) /\ findMany
    /\ foundAll' = Returned(queryInShadowDOM(selectors[i], TRUE, currentElement))
    /\ evaluated' = Append(evaluated, [stage |-> i, root |-> currentElement])
    /\ pc' = "idle"
    /\ UNCHANGED <<findMany, selectors, i, currentElement, found, gathered,
                   textVars, treeVars>>

\* Mutant of StageOutcome: the null check of lines 58-61 is left out, and a
\* stage that found nothing hands the old root to the next stage.
StageOutcomeNoNullCheck(r) ==
    IF i = Len(selectors)
    THEN /\ pc' = "idle"
         /\ IF findMany
            THEN foundAll' = Returned(<<>>) /\ UNCHANGED found
            ELSE found' = Returned(r) /\ UNCHANGED foundAll
         /\ currentElement' = r
         /\ UNCHANGED i
    ELSE /\ pc' = "loop"
         /\ currentElement' = (IF r = Null THEN currentElement ELSE r)
         /\ i' = i + 1
         /\ UNCHANGED <<found, foundAll>>

\* what one pass of the loop through lines 57-61 does with the element r
\* that querySelectorXFind returned, and the return of line 63 when the
\* loop ends
StageOutcome(r) ==
    IF r = Null
    THEN /\ pc' = "idle"
         /\ IF findMany
            THEN foundAll' = Returned(<<>>) /\ UNCHANGED found
            ELSE found' = Returned(Null) /\ UNCHANGED foundAll
         /\ UNCHANGED <<i, currentElement>>
    ELSE IF i = Len(selectors)
    THEN /\ pc' = "idle"
         /\ found' = Returned(r)
         /\ currentElement' = r
         /\ UNCHANGED <<i, foundAll>>
    ELSE /\ pc' = "loop"
         /\ currentElement' = r
         /\ i' = i + 1
         /\ UNCHANGED <<found, foundAll>>

\* one pass of the loop that takes line 57
StageOne ==
    /\ pc = "loop"
    /\ ~(i = Len(selectors) /\ findMany)
    /\ StageOutcome(queryInShadowDOM(selectors[i], FALSE, currentElement))
    /\ evaluated' = Append(evaluated, [stage |-> i, root |-> currentElement])
    /\ UNCHANGED <<findMany, selectors, gathered, textVars, treeVars>>

(***************************************************************************)
(* The inputs.                                                             *)
(***************************************************************************)
\* every parentNode map of n elements: an element hangs below the document,
\* below an earlier element, or inside the shadow root of an earlier element
TreeShapes(n) ==
    {f \in [1..n -> (0 - n)..n] :
        \A e \in 1..n : \/ f[e] = Document
                        \/ f[e] > 0 /\ f[e] < e
                        \/ f[e] < 0 /\ 0 - f[e] < e}

\* ids are handed out in the order the collector meets the elements from
\* the document, so each tree is one state and not one per renaming
InTreeOrder ==
    collectElements(querySelectorAllStar(Document)) = [k \in 1..Len(tagName) |-> k]

\* the document, an element, or a shadow root
Roots == {Document} \cup Elements \cup {ShadowRootOf(h) : h \in Hosts}

\* a tree, a root in it and the host's capability; a host without the
\* capability holds no shadow root
TreeInit ==
    /\ \E n \in 0..MaxElems :
          /\ parentNode \in TreeShapes(n)
          /\ tagName \in [1..n -> Tags]
    /\ InTreeOrder
    /\ inRoot \in Roots
    /\ shadowSupport \in {b \in BOOLEAN : Hosts # {} => b}

NoTree ==
    /\ parentNode = <<>>
    /\ tagName = <<>>
    /\ inRoot = Document
    /\ shadowSupport = TRUE
    /\ markerSupport = FALSE
    /\ inSelector = <<>>

QueryIdle ==
    /\ pc = "idle"
    /\ findMany = FALSE
    /\ selectors = <<>>
    /\ i = 1
    /\ currentElement = Null
    /\ evaluated = <<>>
    /\ found = Unset
    /\ foundAll = UnsetAll

NotCalled == [called |-> FALSE, threw |-> FALSE, strings |-> <<>>]

Called(r) == [called |-> TRUE, threw |-> r.threw, strings |-> r.strings]

TextIdle ==
    /\ strIn = <<>>
    /\ strCh = COMMA
    /\ tokOut = NotCalled
    /\ segOut = NotCalled

NotGathered == [called |-> FALSE, elements |-> <<>>]

(***************************************************************************)
(* The query machine: xfind and xfindAll, each called once, in either      *)
(* order, with the same selector and root on the same tree.                *)
(***************************************************************************)
Selectors == {
    <<>>,                                               \* the empty selector
    <<"a">>,                                            \* a
    <<"a", SP, "b">>,                                   \* a b
    <<"a", SP, GT, SP, "b">>,                           \* a > b
    <<"a", SP, "a", GT, "b">>,                          \* a a>b
    <<"b", COMMA, "a">>,                                \* b,a
    <<"b", COMMA, SP, "a", SP, "b">>,                   \* b, a b
    <<"a", GT, GT, GT, "b">>,                           \* a>>>b
    <<"a", GT, GT, GT, "a", SP, "b">>,                  \* a>>>a b
    <<"b", GT, GT, GT, "a", GT, GT, GT, "b">> }         \* b>>>a>>>b

\* the parser's answer to '>>>' shows on a selector that holds it
Init ==
    /\ TreeInit
    /\ inSelector \in Selectors
    /\ markerSupport \in {b \in BOOLEAN : b => Len(SplitMarker(inSelector)) > 1}
    /\ QueryIdle
    /\ gathered = NotGathered
    /\ TextIdle

Next ==
    \/ XfindCall
    \/ XfindAllCall
    \/ XfindInvalid
    \/ XfindAllInvalid
    \/ StageAll
    \/ StageOne

Spec == Init /\ [][Next]_vars

(***************************************************************************)
(* The collector machine: gatherAllElementsXFind applied to every tree,    *)
(* root and filter.                                                        *)
(***************************************************************************)
Filters == {
    <<>>,                                               \* no filter
    <<"a">>,                                            \* a
    <<"a", GT, "b">>,                                   \* a>b
    <<"a", SP, "b">> }                                  \* a b

GatherInit ==
    /\ TreeInit
    /\ inSelector \in Filters
    /\ markerSupport = FALSE
    /\ QueryIdle
    /\ gathered = NotGathered
    /\ TextIdle

\* gatherAllElementsXFind(inSelector, inRoot)
GatherCall ==
    /\ ~gathered.called
    /\ gathered' = [called |-> TRUE,
                    elements |-> gatherAllElementsXFind(inSelector, inRoot)]
    /\ UNCHANGED <<textVars, treeVars, queryVars>>

GatherNext == GatherCall

SpecGather == GatherInit /\ [][GatherNext]_vars

(***************************************************************************)
(* The text machine: the text functions applied to every short string.     *)
(***************************************************************************)
Alphabet == {"a", COMMA, SP, GT, DQ, SQ, BS, NL}

Delimiters == {COMMA, SP}

Strings(n) == UNION {[1..k -> Alphabet] : k \in 0..n}

\* a[data-x="1,2"],b
ExampleSelector ==
    <<"a", "[", "d", "a", "t", "a", "-", "x", "=", DQ, "1", COMMA, "2", DQ, "]", COMMA, "b">>

TextInit ==
    /\ strIn \in Strings(MaxLen) \cup {ExampleSelector}
    /\ strCh \in Delimiters
    /\ tokOut = NotCalled
    /\ segOut = NotCalled
    /\ NoTree
    /\ QueryIdle
    /\ gathered = NotGathered

\* splitByUnquotedCharacter(strIn, strCh)
TokCall ==
    /\ ~tokOut.called
    /\ tokOut' = Called(splitByUnquotedCharacter(strIn, strCh))
    /\ UNCHANGED <<strIn, strCh, segOut, gathered, treeVars, queryVars>>

\* the segmentation of strIn as one alternative of a stage
SegCall ==
    /\ ~segOut.called
    /\ segOut' = Called(Segment(strIn))
    /\ UNCHANGED <<strIn, strCh, tokOut, gathered, treeVars, queryVars>>

TextNext == TokCall \/ SegCall

SpecText == TextInit /\ [][TextNext]_vars

(***************************************************************************)
(* The vocabulary of the properties.                                       *)
(***************************************************************************)
Range(seq) == {seq[k] : k \in 1..Len(seq)}

NoDuplicates(seq) == \A k, m \in 1..Len(seq) : seq[k] = seq[m] => k = m

\* the position of x in a sequence that holds it once
IndexOf(seq, x) == CHOOSE k \in 1..Len(seq) : seq[k] = x

\* the parent of an element, with the host standing for its shadow root
LogicalParent(e) ==
    IF IsShadowRoot(parentNode[e]) THEN host(parentNode[e]) ELSE parentNode[e]

\* every node above x: parents, shadow roots and their hosts, the document
RECURSIVE NodesAbove(_)
NodesAbove(x) ==
    IF x = Document THEN {}
    ELSE LET up == IF IsShadowRoot(x) THEN host(x) ELSE parentNode[x]
         IN  {up} \cup NodesAbove(up)

\* the elements reachable from rt through child links and shadow root links
Reachable(rt) == {e \in Elements : rt \in NodesAbove(e)}

\* the elements in the shadow tree of A, nested shadow trees included
InShadowOf(A) == IF A \in Hosts THEN Reachable(ShadowRootOf(A)) ELSE {}

\* the proper ancestors of e, hosts included, that lie below the root rt
RECURSIVE ScopedAncestors(_, _)
ScopedAncestors(e, rt) ==
    IF parentNode[e] = rt \/ LogicalParent(e) = rt \/ LogicalParent(e) = Document
    THEN {}
    ELSE {LogicalParent(e)} \cup ScopedAncestors(LogicalParent(e), rt)

\* the chain of the written simple selectors steps[1..k] ends at e: e matches
\* steps[k] and, above e and below rt, distinct elements match steps[k-1],
\* ..., steps[1] in that order, the next one being the parent after '>' and
\* any ancestor after a space
RECURSIVE ChainEndsAt(_, _, _, _)
ChainEndsAt(e, steps, k, rt) ==
    /\ steps[k].tag \in {"*", tagName[e]}
    /\ \/ k = 1
       \/ /\ k > 1
          /\ steps[k].comb = "child"
          /\ LogicalParent(e) \in ScopedAncestors(e, rt)
          /\ ChainEndsAt(LogicalParent(e), steps, k - 1, rt)
       \/ /\ k > 1
          /\ steps[k].comb = "desc"
          /\ \E anc \in ScopedAncestors(e, rt) : ChainEndsAt(anc, steps, k - 1, rt)

HasComma(s) == \E k \in 1..Len(s) : s[k] = COMMA

\* the latest call went through every stage, so the last one was resolved
\* against LastRoot
ReachedLastStage == evaluated # <<>> /\ Len(evaluated) = Len(selectors)

LastStage == selectors[Len(selectors)]

LastRoot == evaluated[Len(evaluated)].root

\* the candidates the matcher accepts for the alternative alt under rt
AcceptedFor(alt, rt) ==
    LET refined == Segment(alt).strings
    IN  {e \in Range(gatherAllElementsXFind(refined[Len(refined)], rt)) :
            matchElements(refined, Len(refined), rt, e)}

\* pieces joined by the delimiter d
RECURSIVE Join(_, _)
Join(pieces, d) ==
    IF pieces = <<>> THEN <<>>
    ELSE IF Len(pieces) = 1 THEN pieces[1]
    ELSE pieces[1] \o <<d>> \o Join(Tail(pieces), d)

\* the positions, in the joined string, of the delimiters between the pieces
RECURSIVE CutsOf(_, _)
CutsOf(pieces, offset) ==
    IF Len(pieces) <= 1 THEN {}
    ELSE {offset + Len(pieces[1]) + 1}
         \cup CutsOf(Tail(pieces), offset + Len(pieces[1]) + 1)

\* the positions from p on where d stands outside every quoted span and is
\* not the second character of a backslash-escaped pair
RECURSIVE UnquotedAt(_, _, _, _, _)
UnquotedAt(s, d, p, inDouble, inSingle) ==
    IF p > Len(s) THEN {}
    ELSE IF s[p] = BS /\ p < Len(s) THEN UnquotedAt(s, d, p + 2, inDouble, inSingle)
    ELSE IF s[p] = DQ /\ ~inSingle THEN UnquotedAt(s, d, p + 1, ~inDouble, inSingle)
    ELSE IF s[p] = SQ /\ ~inDouble THEN UnquotedAt(s, d, p + 1, inDouble, ~inSingle)
    ELSE (IF s[p] = d /\ ~inDouble /\ ~inSingle THEN {p} ELSE {})
         \cup UnquotedAt(s, d, p + 1, inDouble, inSingle)

\* the closed quoted spans <<first, last>> of s from p on; open is the place
\* of the opening quote q, or 0 outside a span
RECURSIVE QuotedSpans(_, _, _, _)
QuotedSpans(s, p, open, q) ==
    IF p > Len(s) THEN {}
    ELSE IF s[p] = BS /\ p < Len(s) THEN QuotedSpans(s, p + 2, open, q)
    ELSE IF open = 0
    THEN IF s[p] \in {DQ, SQ}
         THEN QuotedSpans(s, p + 1, p, s[p])
         ELSE QuotedSpans(s, p + 1, 0, q)
    ELSE IF s[p] = q
    THEN {<<open, p>>} \cup QuotedSpans(s, p + 1, 0, q)
    ELSE QuotedSpans(s, p + 1, open, q)

\* sub stands in c, character for character
Contains(c, sub) ==
    \E k \in 1..(Len(c) - Len(sub) + 1) : SubSeq(c, k, k + Len(sub) - 1) = sub

(***************************************************************************)
(* The properties.                                                         *)
(***************************************************************************)

\* C1: on a tree without shadow roots, on a host with the capability, for a
\* selector without the marker, xfind returns what the native querySelector
\* returns and xfindAll returns the native querySelectorAll list: the same
\* elements, as often, in the same order.
C1_AgreesWithNative ==
    (Hosts = {} /\ shadowSupport /\ Len(SplitMarker(inSelector)) = 1) =>
        /\ found.status = "returned" =>
              found.value = querySelector(inRoot, inSelector)
        /\ foundAll.status = "returned" =>
              foundAll.value = querySelectorAll(inRoot, inSelector)

\* C2 as claimed: xfind on a>>>b resolves a to A, returns an element of A's
\* light tree only when A's shadow tree holds no match of b, and never
\* returns an element outside A's shadow tree and A's descendants.
C2_ShadowTreeFirst ==
    (pc = "idle" /\ ~findMany /\ Len(selectors) = 2 /\ ReachedLastStage
        /\ found.status = "returned" /\ found.value # Null) =>
        LET A == LastRoot
            shadowMatches == InShadowOf(A) \cap Range(queryInShadowDOM(LastStage, TRUE, A))
        IN  /\ A = queryInShadowDOM(selectors[1], FALSE, inRoot)
            /\ found.value \in Reachable(A)
            /\ found.value \notin InShadowOf(A) => shadowMatches = {}

\* C2 as amended: xfind on a>>>b resolves a to A and then b with A as the
\* root; it returns the native A.querySelector(b) whenever that finds an
\* element, whatever A's shadow tree holds, and an element of A's shadow tree
\* only when the native query finds none; it never returns an element outside
\* A's shadow tree and A's descendants.
C2_LightTreeFirst ==
    (pc = "idle" /\ ~findMany /\ Len(selectors) = 2 /\ ReachedLastStage
        /\ found.status = "returned") =>
        LET A == LastRoot
            light == querySelector(A, LastStage)
        IN  /\ A = queryInShadowDOM(selectors[1], FALSE, inRoot)
            /\ light # Null => found.value = light
            /\ found.value \in InShadowOf(A) => light = Null
            /\ found.value # Null => found.value \in Reachable(A)

\* C2 witness: xfind on a two-stage selector returned A's light-tree match
\* while A's shadow tree holds a match too
C2_Witness ==
    /\ pc = "idle" /\ ~findMany /\ Len(selectors) = 2 /\ ReachedLastStage
    /\ found.status = "returned"
    /\ found.value # Null
    /\ found.value \notin InShadowOf(LastRoot)
    /\ InShadowOf(LastRoot) \cap Range(queryInShadowDOM(LastStage, TRUE, LastRoot)) # {}

\* C3: the predicate of matchElements accepts a candidate e exactly when the
\* chain of the written simple selectors ends at e: distinct elements, each
\* a proper ancestor of the one before, match them in order.  Stated for a
\* stage resolved from the document, where no scope limit plays a part.
C3_ChainOrderPreserved ==
    (pc = "loop" /\ findMany /\ i = Len(selectors) /\ shadowSupport
        /\ currentElement = Document /\ ~HasComma(selectors[i])) =>
        LET refined == Segment(selectors[i]).strings
            steps == ParseComplex(selectors[i]).steps
        IN  \A e \in Range(gatherAllElementsXFind(refined[Len(refined)], currentElement)) :
                matchElements(refined, Len(refined), currentElement, e)
                    <=> ChainEndsAt(e, steps, Len(steps), currentElement)

\* C4: splitByUnquotedCharacter does not throw; its pieces joined by the
\* delimiter give the input back; it cuts exactly at the delimiters that
\* stand outside quotes and are not escaped; the empty string gives one
\* empty piece and a[data-x="1,2"],b cut at commas gives two pieces.
C4_SplitContract ==
    tokOut.called =>
        /\ ~tokOut.threw
        /\ Join(tokOut.strings, strCh) = strIn
        /\ CutsOf(tokOut.strings, 0) = UnquotedAt(strIn, strCh, 1, FALSE, FALSE)
        /\ strIn = <<>> => tokOut.strings = << <<>> >>
        /\ (strIn = ExampleSelector /\ strCh = COMMA) => Len(tokOut.strings) = 2

\* C5: the stages are resolved in order, each against the element the stage
\* before returned; when a stage that is not the last resolves to no
\* element the call returns null (xfind) or the empty list (xfindAll)
\* without throwing, and no later stage is resolved.
C5_ShortCircuit ==
    /\ \A k \in 1..Len(evaluated) :
          /\ evaluated[k].stage = k
          /\ evaluated[k].root =
                IF k = 1 THEN inRoot
                ELSE queryInShadowDOM(selectors[k - 1], FALSE, evaluated[k - 1].root)
          /\ evaluated[k].root # Null
    /\ (pc = "idle" /\ evaluated # <<>> /\ Len(evaluated) < Len(selectors)) =>
          /\ queryInShadowDOM(selectors[Len(evaluated)], FALSE, LastRoot) = Null
          /\ IF findMany
             THEN foundAll = Returned(<<>>)
             ELSE found = Returned(Null)
    /\ (pc = "loop") => Len(evaluated) = i - 1

\* C5 witness: xfindAll on a three-stage selector stopped at the second
\* stage and returned the empty list
C5_Witness ==
    /\ pc = "idle" /\ findMany
    /\ Len(selectors) = 3
    /\ Len(evaluated) = 2
    /\ foundAll = Returned(<<>>)

\* C6: getParentOrHost returns null when the parent of a candidate, or the
\* host of the shadow root that is its parent, is the root of the query, so
\* matchElements tests neither the root nor an element above it.
C6_StaysBelowRoot ==
    (pc = "loop" /\ findMany /\ i = Len(selectors) /\ shadowSupport) =>
        LET rt == currentElement
            alts == splitByUnquotedCharacter(selectors[i], COMMA).strings
        IN  \A k \in 1..Len(alts) :
                LET refined == Segment(alts[k]).strings
                IN  \A e \in Range(gatherAllElementsXFind(refined[Len(refined)], rt)) :
                        /\ LogicalParent(e) = rt => getParentOrHost(e, rt) = Null
                        /\ MatchWalk(e, Len(refined), refined, rt, {}).tested
                               \cap ({rt} \cup NodesAbove(rt)) = {}

\* C7: on a host with the capability, the result of the last stage of
\* xfindAll holds exactly the candidates the matcher accepts for one
\* alternative or another, each of them once.
C7_UnionOfAlternatives ==
    (pc = "idle" /\ findMany /\ ReachedLastStage /\ shadowSupport
        /\ foundAll.status = "returned") =>
        LET alts == splitByUnquotedCharacter(LastStage, COMMA).strings
        IN  /\ Range(foundAll.value) =
                  UNION {AcceptedFor(alts[k], LastRoot) : k \in 1..Len(alts)}
            /\ NoDuplicates(foundAll.value)

\* C8: the collector without a filter lists every element reachable from
\* the root through child and shadow root links exactly once and nothing
\* else, the elements of the root's own shadow tree before the others; with
\* a filter it lists those of them that match it, in the same order.
C8_CollectsEachOnce ==
    gathered.called =>
        LET unfiltered == gatherAllElementsXFind(<<>>, inRoot)
            listed == gathered.elements
        IN  /\ NoDuplicates(listed)
            /\ Range(listed) =
                  {e \in Reachable(inRoot) : inSelector = <<>> \/ matches(e, inSelector)}
            /\ \A k, m \in 1..Len(listed) :
                  (listed[k] \in InShadowOf(inRoot) /\ listed[m] \notin InShadowOf(inRoot))
                      => k < m
            /\ Range(listed) \subseteq Range(unfiltered)
            /\ \A k, m \in 1..Len(listed) :
                  k < m => IndexOf(unfiltered, listed[k]) < IndexOf(unfiltered, listed[m])

\* C8 witness: the collector ran without a filter from an element that owns
\* a shadow tree and has descendants of its own, and listed them all
C8_Witness ==
    /\ gathered.called
    /\ inSelector = <<>>
    /\ IsElement(inRoot)
    /\ InShadowOf(inRoot) # {}
    /\ Children(inRoot) # {}
    /\ Len(gathered.elements) = Cardinality(Reachable(inRoot))

\* C9 as claimed: xfind returns null exactly when xfindAll returns the empty
\* list, and an element xfind returns is the first of xfindAll's list.
C9_ModesAgree ==
    (found.status = "returned" /\ foundAll.status = "returned") =>
        /\ found.value = Null <=> foundAll.value = <<>>
        /\ found.value # Null => foundAll.value # <<>> /\ foundAll.value[1] = found.value

\* whether the fast path of line 97 decides the last stage of the latest call
FastPathHit ==
    /\ shadowSupport
    /\ ReachedLastStage
    /\ querySelector(LastRoot, LastStage) # Null

\* C9 as amended: when the native query of the last stage finds an element
\* on a host with the capability, xfind returns that element, which need not
\* be the first of xfindAll's list nor in it; in every other case xfind
\* returns null exactly when xfindAll returns the empty list, and an element
\* xfind returns is the first of xfindAll's list.
C9_ModesAgreeOffFastPath ==
    (pc = "idle" /\ found.status = "returned" /\ foundAll.status = "returned") =>
        IF FastPathHit
        THEN found.value = querySelector(LastRoot, LastStage)
        ELSE /\ found.value = Null <=> foundAll.value = <<>>
             /\ found.value # Null =>
                   foundAll.value # <<>> /\ foundAll.value[1] = found.value

\* C9 witness: both calls returned, the native query of the last stage found
\* nothing, and xfind returned an element found across a shadow root
C9_Witness ==
    /\ pc = "idle" /\ found.status = "returned" /\ foundAll.status = "returned"
    /\ ~FastPathHit
    /\ shadowSupport
    /\ found.value # Null
    /\ Len(foundAll.value) > 1

\* C10: every closed quoted span of a stage stands unchanged, character for
\* character, inside a component of the segmenter's output.  Stated for the
\* stages that hold no line break.
C10_QuotedTextUntouched ==
    (segOut.called /\ \A k \in 1..Len(strIn) : strIn[k] # NL) =>
        /\ ~segOut.threw
        /\ \A span \in QuotedSpans(strIn, 1, 0, DQ) :
              \E k \in 1..Len(segOut.strings) :
                  Contains(segOut.strings[k], SubSeq(strIn, span[1], span[2]))

====
